---- MODULE Spec2Model ----
(***************************************************************************)
(* Coordinator of cosl.coordinated_workers: the coherence verdicts, the    *)
(* object-storage reader, the status reporter and update_cluster, as a     *)
(* state machine over the relation data the coordinator units observe.     *)
(***************************************************************************)
EXTENDS Integers, Sequences, FiniteSets, TLC

(* ------------------------------ bounds -------------------------------- *)

\* Number of worker relations that may exist at once.
NumWorkers == 2

\* Number of coordinator units.
NumUnits == 2

WorkerIds == 1..NumWorkers
Units == 1..NumUnits

\* leader = NoUnit: no unit holds leadership.  last.unit = NoUnit: no unit acted.
NoUnit == 0

(* --------------------------- value universes --------------------------- *)

NULL == "null"
NoException == "none"
S3NotFoundError == "S3NotFoundError"
AssertionError == "AssertionError"
JSONDecodeError == "JSONDecodeError"
KeyError == "KeyError"

\* Optional[bool] of is_recommended.
PyNone == "None"
PyTrue == "True"
PyFalse == "False"

PyBool(b) == IF b THEN PyTrue ELSE PyFalse

\* Python truthiness of an Optional[bool]: `not x` is True for None and False.
PyNot(v) == v # PyTrue

VARIABLES
    roles_config,   \* ClusterRolesConfig handed to the constructor
    overrides,      \* optional constructor arguments: is_coherent, is_recommended, tracing_receivers
    workers,        \* cluster relations: per worker relation, its remote app databag
    s3_data,        \* what S3Requirer.get_s3_connection_info() returns
    cert,           \* CertHandler: enabled, server_cert, private_key, ca_cert
    logging,        \* logging relation: per remote unit, its databag
    leader,         \* the coordinator unit holding leadership, or NoUnit
    outbound,       \* the coordinator's application databag in the worker relations
    last            \* what the last step did: the operation, its unit, its outcome

vars == <<roles_config, overrides, workers, s3_data, cert, logging, leader, outbound, last>>

env == <<roles_config, overrides, workers, s3_data, cert, logging, leader>>

(* ----------------------------- role config ----------------------------- *)

SubsetOf(a, b) == a \subseteq b

validate_roles_config_no_meta_keys(rc) ==
    /\ \A m \in DOMAIN rc.meta_roles : SubsetOf(rc.meta_roles[m], rc.roles)
    /\ SubsetOf(rc.minimal_deployment, rc.roles)
    /\ SubsetOf(DOMAIN rc.recommended_deployment, rc.roles)

validate_roles_config_no_minimal(rc) ==
    /\ SubsetOf(DOMAIN rc.meta_roles, rc.roles)
    /\ \A m \in DOMAIN rc.meta_roles : SubsetOf(rc.meta_roles[m], rc.roles)
    /\ SubsetOf(DOMAIN rc.recommended_deployment, rc.roles)

\* TRUE iff no assertion of validate_roles_config fails.
validate_roles_config(rc) ==
    /\ SubsetOf(DOMAIN rc.meta_roles, rc.roles)
    /\ \A m \in DOMAIN rc.meta_roles : SubsetOf(rc.meta_roles[m], rc.roles)
    /\ SubsetOf(rc.minimal_deployment, rc.roles)
    /\ SubsetOf(DOMAIN rc.recommended_deployment, rc.roles)

\* The roles config of the repository's tests, on two concrete roles.
TestRolesConfig ==
    [ roles |-> {"all", "read", "write"},
      meta_roles |-> [m \in {"all"} |-> {"all", "read", "write"}],
      minimal_deployment |-> {"read", "write"},
      recommended_deployment |-> [r \in {"read", "write"} |-> 2] ]

\* The same without a recommended-deployment criterion.
NoRecommendedRolesConfig ==
    [ roles |-> {"all", "read", "write"},
      meta_roles |-> [m \in {"all"} |-> {"all", "read", "write"}],
      minimal_deployment |-> {"read", "write"},
      recommended_deployment |-> <<>> ]

(* --------------------------- cluster provider -------------------------- *)

NoRelation == [rel |-> FALSE, valid |-> FALSE, roles |-> {}]
Malformed == [rel |-> TRUE, valid |-> FALSE, roles |-> {}]
Announce(rs) == [rel |-> TRUE, valid |-> TRUE, roles |-> rs]

\* What a worker relation's remote databag may hold in this model.
WorkerData == {Malformed, Announce({"read"}), Announce({"write"}), Announce({"all"})}

Relations == {w \in WorkerIds : workers[w].rel}

\* Worker relations of ws whose role data parses.
LiveWorkers(ws) == {w \in WorkerIds : ws[w].rel /\ ws[w].valid}

\* ClusterProvider's expansion of the declared roles through the meta-roles.
expand_roles(declared) ==
    UNION { IF r \in DOMAIN roles_config.meta_roles
            THEN roles_config.meta_roles[r]
            ELSE {r} : r \in declared }

\* ClusterProvider.gather_roles over the worker relations ws: expanded role -> number
\* of workers declaring it, directly or through a meta-role; a worker whose role data
\* does not parse is skipped.
gather_roles(ws) ==
    LET keys == UNION {expand_roles(ws[w].roles) : w \in LiveWorkers(ws)}
    IN [r \in keys |-> Cardinality({w \in LiveWorkers(ws) : r \in expand_roles(ws[w].roles)})]

has_workers == Relations # {}

(* --------------------------- coherence engine -------------------------- *)

\* A caller-supplied coherence checker: some worker announces a role.
custom_is_coherent == DOMAIN gather_roles(workers) # {}

\* A caller-supplied recommended checker: at least two workers announce roles.
custom_is_recommended == PyBool(Cardinality(LiveWorkers(workers)) >= 2)

is_coherent_override_and_default ==
    IF overrides.is_coherent
    THEN custom_is_coherent /\ roles_config.minimal_deployment \subseteq DOMAIN gather_roles(workers)
    ELSE roles_config.minimal_deployment \subseteq DOMAIN gather_roles(workers)

is_coherent_subset ==
    IF overrides.is_coherent
    THEN custom_is_coherent
    ELSE DOMAIN gather_roles(workers) \subseteq roles_config.minimal_deployment

is_coherent ==
    IF overrides.is_coherent
    THEN custom_is_coherent
    ELSE roles_config.minimal_deployment \subseteq DOMAIN gather_roles(workers)

missing_roles_reversed == DOMAIN gather_roles(workers) \ roles_config.minimal_deployment

\* The property Coordinator.missing_roles.
missing_roles == roles_config.minimal_deployment \ DOMAIN gather_roles(workers)

\* roles.get(r, 0)
RoleCount(r) == IF r \in DOMAIN gather_roles(workers) THEN gather_roles(workers)[r] ELSE 0

is_recommended_absent_ok ==
    IF overrides.is_recommended
    THEN custom_is_recommended
    ELSE IF DOMAIN roles_config.recommended_deployment = {}
         THEN PyNone
         ELSE IF \E r \in DOMAIN roles_config.recommended_deployment \cap DOMAIN gather_roles(workers) :
                    gather_roles(workers)[r] < roles_config.recommended_deployment[r]
              THEN PyFalse
              ELSE PyTrue

is_recommended ==
    IF overrides.is_recommended
    THEN custom_is_recommended
    ELSE IF DOMAIN roles_config.recommended_deployment = {}
         THEN PyNone
         ELSE IF \E r \in DOMAIN roles_config.recommended_deployment :
                    RoleCount(r) < roles_config.recommended_deployment[r]
              THEN PyFalse
              ELSE PyTrue

(* --------------------------- credential sources ------------------------ *)

Returns(v) == [exc |-> NoException, value |-> v]
Raises(e, v) == [exc |-> e, value |-> v]

\* An endpoint is the sequence of its parts: <<"https", "://", "example.com">>.
StartsWithHttps(e) == Len(e) >= 2 /\ e[1] = "https" /\ e[2] = "://"

\* urlparse(e).scheme of the endpoints of this model.
UrlScheme(e) == IF Len(e) >= 2 /\ e[2] = "://" THEN e[1] ELSE ""

StripSchemeHttpOnly(e) ==
    IF Len(e) >= 2 /\ e[1] = "http" /\ e[2] = "://" THEN SubSeq(e, 3, Len(e)) ELSE e

\* re.sub(rf"^{scheme}://", "", e)
StripScheme(e) ==
    IF Len(e) >= 2 /\ e[1] = UrlScheme(e) /\ e[2] = "://" /\ UrlScheme(e) # ""
    THEN SubSeq(e, 3, Len(e))
    ELSE IF Len(e) >= 1 /\ UrlScheme(e) = "" /\ e[1] = "://"
         THEN SubSeq(e, 2, Len(e))
         ELSE e

S3MandatoryKeys == {"bucket", "endpoint", "access-key", "secret-key"}

NoS3Config ==
    [ insecure |-> FALSE, endpoint |-> <<>>, region |-> "", access_key_id |-> "",
      secret_access_key |-> "", bucket_name |-> "" ]

\* The property Coordinator._s3_config: the adapted configuration, or S3NotFoundError.
_s3_config ==
    IF ~(DOMAIN s3_data # {} /\ S3MandatoryKeys \subseteq DOMAIN s3_data)
    THEN Raises(S3NotFoundError, NoS3Config)
    ELSE Returns(
        [ insecure |-> ~StartsWithHttps(s3_data["endpoint"]),
          endpoint |-> StripScheme(s3_data["endpoint"]),
          region |-> IF "region" \in DOMAIN s3_data THEN s3_data["region"] ELSE "",
          access_key_id |-> s3_data["access-key"],
          secret_access_key |-> s3_data["secret-key"],
          bucket_name |-> s3_data["bucket"] ])

s3_ready_uncaught ==
    IF _s3_config.exc # NoException
    THEN Raises(_s3_config.exc, FALSE)
    ELSE Returns(TRUE)

\* The property Coordinator.s3_ready; bool() of the config dict, which always has keys.
s3_ready ==
    IF _s3_config.exc = S3NotFoundError
    THEN Returns(FALSE)
    ELSE IF _s3_config.exc # NoException
         THEN Raises(_s3_config.exc, FALSE)
         ELSE Returns(TRUE)

\* has_workers and is_coherent and s3_ready, evaluated left to right.
can_handle_events ==
    IF ~has_workers THEN Returns(FALSE)
    ELSE IF ~is_coherent THEN Returns(FALSE)
    ELSE s3_ready

tls_available_no_private_key ==
    /\ cert.enabled
    /\ cert.server_cert # NULL
    /\ cert.ca_cert # NULL

tls_available ==
    /\ cert.enabled
    /\ cert.server_cert # NULL
    /\ cert.private_key # NULL
    /\ cert.ca_cert # NULL

(* logging relation data of one remote unit *)
NoLogUnit == [unit |-> FALSE, has_endpoint |-> FALSE, parses |-> FALSE, obj |-> <<>>]
LogNoEndpoint == [unit |-> TRUE, has_endpoint |-> FALSE, parses |-> FALSE, obj |-> <<>>]
LogBadJson == [unit |-> TRUE, has_endpoint |-> TRUE, parses |-> FALSE, obj |-> <<>>]
LogNoUrl == [unit |-> TRUE, has_endpoint |-> TRUE, parses |-> TRUE, obj |-> <<>>]
LogOk ==
    [ unit |-> TRUE, has_endpoint |-> TRUE, parses |-> TRUE,
      obj |-> [k \in {"url"} |-> "http://loki:3100/loki/api/v1/push"] ]

LogUnits == {"loki/0"}

\* What iterating the unit raises: json.loads on an unparseable endpoint, ["url"] on
\* an object without it.
LogUnitError(l) ==
    IF ~logging[l].unit \/ ~logging[l].has_endpoint THEN NoException
    ELSE IF ~logging[l].parses THEN JSONDecodeError
    ELSE IF "url" \notin DOMAIN logging[l].obj THEN KeyError
    ELSE NoException

\* The property Coordinator.loki_endpoints_by_unit.
loki_endpoints_by_unit ==
    LET failing == {l \in LogUnits : LogUnitError(l) # NoException}
        good == {l \in LogUnits : logging[l].unit /\ logging[l].has_endpoint}
    IN IF failing # {}
       THEN Raises(LogUnitError(CHOOSE l \in failing : TRUE), <<>>)
       ELSE Returns([l \in good |-> logging[l].obj["url"]])

(* ------------------------------ reconciler ----------------------------- *)

EmptyBag ==
    [ keys |-> {}, worker_config |-> NULL, loki_endpoints |-> <<>>, ca_cert |-> NULL,
      server_cert |-> NULL, privkey_secret_id |-> NULL, tracing_receivers |-> <<>> ]

\* workers_config(coordinator) of the repository's tests.
workers_config_getter == "workers configuration for foo-app"

\* ClusterProvider.grant_privkey(VAULT_SECRET_LABEL): the id of the granted secret.
grant_privkey == "secret:cert-handler-private-vault"

\* The tracing_receivers getter the constructor was given, invoked.
NoGetter == "no getter"
OtlpHttpGetter == "otlp_http"
EmptyReceiversGetter == "no receivers"
tracing_receivers_getter ==
    IF overrides.tracing_receivers = "otlp_http"
    THEN [p \in {"otlp_http"} |-> "1.2.3.4:4318"]
    ELSE <<>>

PublishArgumentsMerged ==
    [ keys |-> outbound.keys \cup {"worker_config", "loki_endpoints"}
               \cup (IF tls_available THEN {"ca_cert", "server_cert", "privkey_secret_id"} ELSE {})
               \cup (IF overrides.tracing_receivers # NoGetter THEN {"tracing_receivers"} ELSE {}),
      worker_config |-> workers_config_getter,
      loki_endpoints |-> loki_endpoints_by_unit.value,
      ca_cert |-> IF tls_available THEN cert.ca_cert ELSE outbound.ca_cert,
      server_cert |-> IF tls_available THEN cert.server_cert ELSE outbound.server_cert,
      privkey_secret_id |-> IF tls_available THEN grant_privkey ELSE outbound.privkey_secret_id,
      tracing_receivers |-> IF overrides.tracing_receivers # NoGetter
                            THEN tracing_receivers_getter ELSE outbound.tracing_receivers ]

PublishArgumentsAccumulatingLoki ==
    [ keys |-> {"worker_config", "loki_endpoints"}
               \cup (IF tls_available THEN {"ca_cert", "server_cert", "privkey_secret_id"} ELSE {})
               \cup (IF overrides.tracing_receivers # NoGetter THEN {"tracing_receivers"} ELSE {}),
      worker_config |-> workers_config_getter,
      loki_endpoints |->
          [ l \in DOMAIN loki_endpoints_by_unit.value \cup DOMAIN outbound.loki_endpoints |->
              IF l \in DOMAIN loki_endpoints_by_unit.value
              THEN loki_endpoints_by_unit.value[l] ELSE outbound.loki_endpoints[l] ],
      ca_cert |-> IF tls_available THEN cert.ca_cert ELSE NULL,
      server_cert |-> IF tls_available THEN cert.server_cert ELSE NULL,
      privkey_secret_id |-> IF tls_available THEN grant_privkey ELSE NULL,
      tracing_receivers |-> IF overrides.tracing_receivers # NoGetter
                            THEN tracing_receivers_getter ELSE <<>> ]

PublishArgumentsRawKey ==
    [ keys |-> {"worker_config", "loki_endpoints"}
               \cup (IF tls_available THEN {"ca_cert", "server_cert", "privkey_secret_id"} ELSE {})
               \cup (IF overrides.tracing_receivers # NoGetter THEN {"tracing_receivers"} ELSE {}),
      worker_config |-> workers_config_getter,
      loki_endpoints |-> loki_endpoints_by_unit.value,
      ca_cert |-> IF tls_available THEN cert.ca_cert ELSE NULL,
      server_cert |-> IF tls_available THEN cert.server_cert ELSE NULL,
      privkey_secret_id |-> IF tls_available THEN cert.private_key ELSE NULL,
      tracing_receivers |-> IF overrides.tracing_receivers # NoGetter
                            THEN tracing_receivers_getter ELSE <<>> ]

PublishArgumentsNonEmptyTracing ==
    LET tracing == overrides.tracing_receivers # NoGetter /\ tracing_receivers_getter # <<>>
    IN [ keys |-> {"worker_config", "loki_endpoints"}
                  \cup (IF tls_available THEN {"ca_cert", "server_cert", "privkey_secret_id"} ELSE {})
                  \cup (IF tracing THEN {"tracing_receivers"} ELSE {}),
         worker_config |-> workers_config_getter,
         loki_endpoints |-> loki_endpoints_by_unit.value,
         ca_cert |-> IF tls_available THEN cert.ca_cert ELSE NULL,
         server_cert |-> IF tls_available THEN cert.server_cert ELSE NULL,
         privkey_secret_id |-> IF tls_available THEN grant_privkey ELSE NULL,
         tracing_receivers |-> IF tracing THEN tracing_receivers_getter ELSE <<>> ]

PublishArgumentsOnlyNewTls ==
    LET tls == tls_available /\ ("ca_cert" \notin outbound.keys \/ outbound.ca_cert # cert.ca_cert)
    IN [ keys |-> {"worker_config", "loki_endpoints"}
                  \cup (IF tls THEN {"ca_cert", "server_cert", "privkey_secret_id"} ELSE {})
                  \cup (IF overrides.tracing_receivers # NoGetter THEN {"tracing_receivers"} ELSE {}),
         worker_config |-> workers_config_getter,
         loki_endpoints |-> loki_endpoints_by_unit.value,
         ca_cert |-> IF tls THEN cert.ca_cert ELSE NULL,
         server_cert |-> IF tls THEN cert.server_cert ELSE NULL,
         privkey_secret_id |-> IF tls THEN grant_privkey ELSE NULL,
         tracing_receivers |-> IF overrides.tracing_receivers # NoGetter
                               THEN tracing_receivers_getter ELSE <<>> ]

\* The keyword arguments update_cluster hands to publish_data.
PublishArguments ==
    [ keys |-> {"worker_config", "loki_endpoints"}
               \cup (IF tls_available THEN {"ca_cert", "server_cert", "privkey_secret_id"} ELSE {})
               \cup (IF overrides.tracing_receivers # NoGetter THEN {"tracing_receivers"} ELSE {}),
      worker_config |-> workers_config_getter,
      loki_endpoints |-> loki_endpoints_by_unit.value,
      ca_cert |-> IF tls_available THEN cert.ca_cert ELSE NULL,
      server_cert |-> IF tls_available THEN cert.server_cert ELSE NULL,
      privkey_secret_id |-> IF tls_available THEN grant_privkey ELSE NULL,
      tracing_receivers |-> IF overrides.tracing_receivers # NoGetter
                            THEN tracing_receivers_getter ELSE <<>> ]

\* ClusterProvider.publish_data: the application databag of every worker relation
\* is overwritten with the bundle; with no relation there is nothing to write.
publish_data(bundle) == IF Relations = {} THEN outbound ELSE bundle

is_leader(u) == leader = u

\* The calls and gates of update_cluster in the order of its statements.
UpdateSteps ==
    << "nginx.configure_pebble_layer", "nginx_exporter.configure_pebble_layer",
       "is_coherent", "is_leader", "publish_data" >>

\* The statements of update_cluster up to and including s.
StepsThrough(s) ==
    SubSeq(UpdateSteps, 1, CHOOSE i \in 1..Len(UpdateSteps) : UpdateSteps[i] = s)

\* update_cluster returned at the gate named.
Skipped(gate) ==
    [ refreshed |-> TRUE, published |-> FALSE, raised |-> NoException, databag |-> outbound,
      steps |-> StepsThrough(gate), granted |-> FALSE ]

\* update_cluster went past both gates: the arguments of publish_data are evaluated
\* in order (worker_config, loki_endpoints, which may raise, then the TLS fields with
\* the grant of the private key), then publish_data is called.
Published ==
    IF loki_endpoints_by_unit.exc # NoException
    THEN [refreshed |-> TRUE, published |-> FALSE, raised |-> loki_endpoints_by_unit.exc,
          databag |-> outbound, steps |-> StepsThrough("is_leader"), granted |-> FALSE]
    ELSE [refreshed |-> TRUE, published |-> TRUE, raised |-> NoException,
          databag |-> publish_data(PublishArguments), steps |-> StepsThrough("publish_data"),
          granted |-> tls_available]

update_cluster_no_leader_gate(u) ==
    IF ~is_coherent THEN Skipped("is_coherent") ELSE Published

update_cluster_no_coherence_gate(u) ==
    IF ~is_leader(u) THEN Skipped("is_leader") ELSE Published

update_cluster_s3_gate(u) ==
    IF ~is_coherent THEN Skipped("is_coherent")
    ELSE IF ~is_leader(u) THEN Skipped("is_leader")
    ELSE IF ~s3_ready.value THEN Skipped("is_leader")
    ELSE Published

update_cluster_refresh_after_gates(u) ==
    IF ~is_coherent
    THEN [Skipped("is_coherent") EXCEPT !.refreshed = FALSE, !.steps = <<"is_coherent">>]
    ELSE IF ~is_leader(u)
         THEN [Skipped("is_leader") EXCEPT !.refreshed = FALSE, !.steps = <<"is_coherent", "is_leader">>]
         ELSE Published

\* Coordinator.update_cluster on unit u: what it did, and the databag after it.
update_cluster(u) ==
    IF ~is_coherent THEN Skipped("is_coherent")
    ELSE IF ~is_leader(u) THEN Skipped("is_leader")
    ELSE Published

(* ---------------------------- status reporter -------------------------- *)

BlockedStatus(m) == [name |-> "blocked", message |-> m]
ActiveStatus(m) == [name |-> "active", message |-> m]
UnknownStatus == [name |-> "unknown", message |-> ""]
ErrorStatus == [name |-> "error", message |-> ""]

MissingWorkers == BlockedStatus("[consistency] Missing any worker relation.")
ClusterInconsistent == BlockedStatus("[consistency] Cluster inconsistent.")
MissingS3 == BlockedStatus("[consistency] Missing S3 integration.")
Degraded == ActiveStatus("[coordinator] Degraded.")
Healthy == ActiveStatus("")

FinalBranch_ignoring_s3 ==
    IF PyNot(is_recommended) THEN <<Degraded>> ELSE <<Healthy>>

\* The last branch of _on_collect_unit_status: if / elif / else.
FinalBranch ==
    IF ~s3_ready.value THEN <<MissingS3>>
    ELSE IF PyNot(is_recommended) THEN <<Degraded>>
    ELSE <<Healthy>>

_on_collect_unit_status_s3_first ==
    FinalBranch
    \o (IF ~has_workers THEN <<MissingWorkers>> ELSE <<>>)
    \o (IF ~is_coherent THEN <<ClusterInconsistent>> ELSE <<>>)

_on_collect_unit_status_short_circuit ==
    IF ~has_workers THEN <<MissingWorkers>>
    ELSE IF ~is_coherent THEN <<ClusterInconsistent>>
    ELSE FinalBranch

\* The statuses _on_collect_unit_status adds, in the order it adds them.
_on_collect_unit_status ==
    (IF ~has_workers THEN <<MissingWorkers>> ELSE <<>>)
    \o (IF ~is_coherent THEN <<ClusterInconsistent>> ELSE <<>>)
    \o FinalBranch

StatusPriority(st) ==
    CASE st.name = "error" -> 5
      [] st.name = "blocked" -> 4
      [] st.name = "maintenance" -> 3
      [] st.name = "waiting" -> 2
      [] st.name = "active" -> 1
      [] OTHER -> 0

\* The unit status the framework sets from the collected statuses: the first of the
\* highest priority.
HighestPriority(sts) ==
    IF sts = <<>> THEN UnknownStatus
    ELSE LET i == CHOOSE i \in 1..Len(sts) :
                    /\ \A j \in 1..Len(sts) : StatusPriority(sts[j]) <= StatusPriority(sts[i])
                    /\ \A j \in 1..(i - 1) : StatusPriority(sts[j]) < StatusPriority(sts[i])
         IN sts[i]

(* ------------------------------ construction --------------------------- *)

ValidateStep == "validate_roles_config"

\* The assignments of Coordinator.__init__ in the order it makes them.
ConstructionOrder ==
    << "topology", ValidateStep, "roles_config", "cluster", "nginx", "nginx_exporter",
       "cert_handler", "s3_requirer", "grafana_dashboards", "logging", "scraping", "tracing" >>

\* The steps __init__ completes: all of them, or those before the failing assertion.
Constructed ==
    IF validate_roles_config(roles_config)
    THEN ConstructionOrder
    ELSE LET i == CHOOSE i \in 1..Len(ConstructionOrder) : ConstructionOrder[i] = ValidateStep
         IN SubSeq(ConstructionOrder, 1, i - 1)

Registration_no_coherence_gate ==
    IF ~has_workers THEN Returns(FALSE)
    ELSE IF s3_ready.exc # NoException THEN s3_ready
    ELSE Returns(~(has_workers /\ ~s3_ready.value))

Registration_no_s3_gate ==
    IF ~has_workers THEN Returns(FALSE)
    ELSE IF ~is_coherent THEN Returns(FALSE)
    ELSE Returns(TRUE)

\* Whether __init__ goes on to observe the events other than collect-status, or the
\* exception that reading s3_ready raises.
Registration ==
    IF ~has_workers THEN Returns(FALSE)
    ELSE IF ~is_coherent THEN Returns(FALSE)
    ELSE IF s3_ready.exc # NoException THEN s3_ready
    ELSE Returns(~(has_workers /\ ~s3_ready.value))

\* Coordinator.__init__: the exception it raises, what it built, and whether it
\* observes the events other than collect-status.
Construct ==
    IF ~validate_roles_config(roles_config)
    THEN [raised |-> AssertionError, built |-> Constructed, registered |-> FALSE]
    ELSE [raised |-> Registration.exc, built |-> Constructed, registered |-> Registration.value]

(* -------------------------------- events ------------------------------- *)

\* Events whose handler is update_cluster alone.
UpdateKinds ==
    { "cluster_changed", "nginx_pebble_ready", "nginx_prometheus_exporter_pebble_ready",
      "loki_push_api_endpoint_joined", "loki_push_api_endpoint_departed",
      "s3_credentials_changed", "s3_credentials_gone" }

\* Events whose handler sets the proxy's certificates, then calls update_cluster.
TlsKinds == {"cert_changed", "config_changed"}

\* Events the coordinator observes nothing for, besides the status collection.
UnobservedKinds == {"update_status", "start", "install"}

Kinds == UpdateKinds \cup TlsKinds \cup UnobservedKinds

\* The calls an event handler makes, in order: the TLS handlers set or delete the
\* proxy's certificates first; every handler ends with update_cluster.
HandlerSteps(tls) ==
    CASE tls = "configured" -> <<"nginx.configure_tls", "update_cluster">>
      [] tls = "deleted" -> <<"nginx.delete_certificates", "update_cluster">>
      [] OTHER -> <<"update_cluster">>

Step(op, u, k, c, invoked, r, tls, statuses, raised) ==
    [ op |-> op, unit |-> u, kind |-> k, built |-> c.built, registered |-> c.registered,
      invoked |-> invoked, refreshed |-> r.refreshed, published |-> r.published,
      steps |-> r.steps, granted |-> r.granted,
      handler |-> IF op = "dispatch" /\ invoked THEN HandlerSteps(tls) ELSE <<>>,
      prior_keys |-> IF op = "idle" THEN {} ELSE outbound.keys,
      nginx_tls |-> tls, raised |-> raised, statuses |-> statuses,
      unit_status |-> IF raised # NoException THEN ErrorStatus ELSE HighestPriority(statuses) ]

NotInvoked ==
    [ refreshed |-> FALSE, published |-> FALSE, raised |-> NoException, databag |-> outbound,
      steps |-> <<>>, granted |-> FALSE ]

NotConstructed == [raised |-> NoException, built |-> <<>>, registered |-> FALSE]

\* No hook is running: the units are idle.
Idle ==
    Step("idle", NoUnit, "", NotConstructed, FALSE, NotInvoked, "untouched", <<>>, NoException)

NginxTls_cert_changed_only(k) ==
    IF k # "cert_changed" THEN "untouched"
    ELSE IF tls_available THEN "configured" ELSE "deleted"

\* What the handler of a TLS event does to the proxy before update_cluster.
NginxTls(k) ==
    IF k \notin TlsKinds THEN "untouched"
    ELSE IF tls_available THEN "configured" ELSE "deleted"

Dispatched_collect_gated(u, k) ==
    LET c == Construct
        handled == c.raised = NoException /\ c.registered /\ k \notin UnobservedKinds
        r == IF handled THEN update_cluster(u) ELSE NotInvoked
        tls == IF handled THEN NginxTls(k) ELSE "untouched"
        raised == IF c.raised # NoException THEN c.raised
                  ELSE IF r.raised # NoException THEN r.raised
                  ELSE s3_ready.exc
        statuses == IF raised # NoException \/ ~c.registered THEN <<>> ELSE _on_collect_unit_status
    IN [databag |-> r.databag,
        step |-> Step("dispatch", u, k, c, handled, r, tls, statuses, raised)]

\* The outcome of dispatching an event of kind k to unit u: the charm is constructed,
\* the handler (if observed) runs, the unit status is collected.
Dispatched(u, k) ==
    LET c == Construct
        handled == c.raised = NoException /\ c.registered /\ k \notin UnobservedKinds
        r == IF handled THEN update_cluster(u) ELSE NotInvoked
        tls == IF handled THEN NginxTls(k) ELSE "untouched"
        raised == IF c.raised # NoException THEN c.raised
                  ELSE IF r.raised # NoException THEN r.raised
                  ELSE s3_ready.exc
        statuses == IF raised # NoException THEN <<>> ELSE _on_collect_unit_status
    IN [databag |-> r.databag,
        step |-> Step("dispatch", u, k, c, handled, r, tls, statuses, raised)]

\* One event of kind k is dispatched to unit u.
Dispatch(u, k) ==
    /\ last.op = "idle"
    /\ outbound' = Dispatched(u, k).databag
    /\ last' = Dispatched(u, k).step
    /\ UNCHANGED env

\* The charm calls the public method update_cluster on unit u; the coordinator it
\* calls it on was constructed, and observed its events if the three gates passed.
UpdateCluster(u) ==
    LET r == update_cluster(u)
        c == [raised |-> NoException, built |-> ConstructionOrder, registered |-> Registration.value]
    IN /\ last.op = "idle"
       /\ validate_roles_config(roles_config)
       /\ outbound' = r.databag
       /\ last' = Step("update_cluster", u, "", c, TRUE, r, "untouched", <<>>, r.raised)
       /\ UNCHANGED env

\* The charm reads coordinator._s3_config while unit u handles an event: the
\* configuration returned, or the exception raised.
ReadS3Config(u) ==
    LET c == [raised |-> NoException, built |-> ConstructionOrder, registered |-> Registration.value]
    IN /\ last.op = "idle"
       /\ validate_roles_config(roles_config)
       /\ last' = Step("read_s3_config", u, "", c, FALSE, NotInvoked, "untouched", <<>>, _s3_config.exc)
                    @@ [s3_config |-> _s3_config.value]
       /\ UNCHANGED <<env, outbound>>

\* The hook returns and the unit is idle again.
Return ==
    /\ last.op # "idle"
    /\ last' = Idle
    /\ UNCHANGED <<env, outbound>>

(* ----------------------------- environment ----------------------------- *)

Endpoint == <<"example.com">>
HttpEndpoint == <<"http", "://", "example.com">>
HttpsEndpoint == <<"https", "://", "example.com">>

NoS3Data == <<>>

S3Relation(keys, endpoint) ==
    [k \in keys |->
        CASE k = "endpoint" -> endpoint
          [] k = "bucket" -> "foo-bucket"
          [] k = "access-key" -> "my-access-key"
          [] k = "secret-key" -> "my-secret-key"
          [] k = "region" -> "canada"
          [] OTHER -> "my ca chain"]

\* The s3 relation data of the repository's tests.
TestS3Data == S3Relation(S3MandatoryKeys, HttpEndpoint)

S3OptionalKeys == {"region", "tls-ca-chain"}

\* Every s3 relation data over the known keys and the three endpoint forms.
S3DataWide ==
    { S3Relation(keys, e) : keys \in SUBSET (S3MandatoryKeys \cup S3OptionalKeys),
                            e \in {Endpoint, HttpEndpoint, HttpsEndpoint} }

\* The hosts an endpoint names, and the three forms of an endpoint of host h.
Hosts == {<<"example.com">>, <<"s3.internal">>}
EndpointForms(h) == {h, <<"http", "://">> \o h, <<"https", "://">> \o h}

\* S3Relation(keys, endpoint) with the fields named in empties set to the empty string.
S3RelationWithEmpty(keys, endpoint, empties) ==
    [k \in keys |->
        IF k \in empties
        THEN (IF k = "endpoint" THEN <<>> ELSE "")
        ELSE S3Relation(keys, endpoint)[k]]

\* Every s3 relation data over the known keys, the endpoint forms of every host, and
\* mandatory fields that are present but empty.
S3Inputs ==
    { S3RelationWithEmpty(keys, e, empties) :
        keys \in SUBSET (S3MandatoryKeys \cup S3OptionalKeys),
        e \in UNION {EndpointForms(h) : h \in Hosts},
        empties \in SUBSET S3MandatoryKeys }

CertDisabled == [enabled |-> FALSE, server_cert |-> NULL, private_key |-> NULL, ca_cert |-> NULL]
CertReady ==
    [enabled |-> TRUE, server_cert |-> "server cert", private_key |-> "private key", ca_cert |-> "ca cert"]

\* Every state of the certificate handler that tls_available tells apart.
CertValues ==
    [ enabled : BOOLEAN, server_cert : {NULL, "server cert"},
      private_key : {NULL, "private key"}, ca_cert : {NULL, "ca cert"} ]

\* A worker relation is created, with its remote databag.
JoinWorker(w, d) ==
    /\ last.op = "idle"
    /\ ~workers[w].rel
    /\ workers' = [workers EXCEPT ![w] = d]
    /\ UNCHANGED <<roles_config, overrides, s3_data, cert, logging, leader, outbound, last>>

\* A worker rewrites its databag.
ChangeWorker(w, d) ==
    /\ last.op = "idle"
    /\ workers[w].rel
    /\ d # workers[w]
    /\ workers' = [workers EXCEPT ![w] = d]
    /\ UNCHANGED <<roles_config, overrides, s3_data, cert, logging, leader, outbound, last>>

\* A worker relation departs; with the last one the application databag is gone.
RemoveWorker(w) ==
    /\ last.op = "idle"
    /\ workers[w].rel
    /\ workers' = [workers EXCEPT ![w] = NoRelation]
    /\ outbound' = IF Relations = {w} THEN EmptyBag ELSE outbound
    /\ UNCHANGED <<roles_config, overrides, s3_data, cert, logging, leader, last>>

\* The s3 relation data becomes d.
SetS3(d) ==
    /\ last.op = "idle"
    /\ d # s3_data
    /\ s3_data' = d
    /\ UNCHANGED <<roles_config, overrides, workers, cert, logging, leader, outbound, last>>

\* The certificate handler's state becomes d.
SetCert(d) ==
    /\ last.op = "idle"
    /\ d # cert
    /\ cert' = d
    /\ UNCHANGED <<roles_config, overrides, workers, s3_data, logging, leader, outbound, last>>

\* The databag of logging unit l becomes d.
SetLogging(l, d) ==
    /\ last.op = "idle"
    /\ d # logging[l]
    /\ logging' = [logging EXCEPT ![l] = d]
    /\ UNCHANGED <<roles_config, overrides, workers, s3_data, cert, leader, outbound, last>>

\* Leadership moves to unit u, or to no unit.
SetLeader(u) ==
    /\ last.op = "idle"
    /\ u # leader
    /\ leader' = u
    /\ UNCHANGED <<roles_config, overrides, workers, s3_data, cert, logging, outbound, last>>

(* ---------------------------- specifications -------------------------- *)

NoOverrides == [is_coherent |-> FALSE, is_recommended |-> FALSE, tracing_receivers |-> NoGetter]

InitEnv ==
    /\ workers = [w \in WorkerIds |-> NoRelation]
    /\ s3_data = NoS3Data
    /\ cert = CertDisabled
    /\ logging = [l \in LogUnits |-> NoLogUnit]
    /\ leader = NoUnit
    /\ outbound = EmptyBag
    /\ last = Idle

(* Spec: the reconciler.  Every source of update_cluster changes; the events are one
   of each handler shape. *)

MainKinds ==
    { "update_status", "cluster_changed", "config_changed", "s3_credentials_gone",
      "cert_changed", "loki_push_api_endpoint_joined" }

Init ==
    /\ roles_config = TestRolesConfig
    /\ overrides = NoOverrides
    /\ InitEnv

Next ==
    \/ \E u \in Units, k \in MainKinds : Dispatch(u, k)
    \/ \E u \in Units : UpdateCluster(u)
    \/ Return
    \/ \E w \in WorkerIds, d \in WorkerData : JoinWorker(w, d)
    \/ \E w \in WorkerIds, d \in WorkerData : ChangeWorker(w, d)
    \/ \E w \in WorkerIds : RemoveWorker(w)
    \/ \E d \in {NoS3Data, TestS3Data} : SetS3(d)
    \/ \E d \in {CertDisabled, CertReady} : SetCert(d)
    \/ \E l \in LogUnits, d \in {NoLogUnit, LogBadJson, LogOk} : SetLogging(l, d)
    \/ \E u \in Units \cup {NoUnit} : SetLeader(u)

Spec == Init /\ [][Next]_vars

(* SpecStatus: the status reporter and the verdicts.  Both role configs, every kind
   of event, an s3 relation that is absent, partial or complete. *)

PartialS3Data == S3Relation(S3MandatoryKeys \ {"secret-key"}, Endpoint)

InitStatus ==
    /\ roles_config \in {TestRolesConfig, NoRecommendedRolesConfig}
    /\ overrides = NoOverrides
    /\ InitEnv

NextStatus ==
    \/ \E u \in Units, k \in Kinds : Dispatch(u, k)
    \/ Return
    \/ \E w \in WorkerIds, d \in WorkerData : JoinWorker(w, d)
    \/ \E w \in WorkerIds, d \in WorkerData : ChangeWorker(w, d)
    \/ \E w \in WorkerIds : RemoveWorker(w)
    \/ \E d \in {NoS3Data, PartialS3Data, TestS3Data} : SetS3(d)
    \/ \E l \in LogUnits, d \in {NoLogUnit, LogBadJson, LogOk} : SetLogging(l, d)
    \/ \E u \in Units \cup {NoUnit} : SetLeader(u)

SpecStatus == InitStatus /\ [][NextStatus]_vars

(* SpecConfig: construction over every role config on three role names. *)

RoleNames == {"all", "read", "write"}

RolesConfigs ==
    [ roles : SUBSET RoleNames,
      meta_roles : {<<>>} \cup {[m \in {"all"} |-> members] : members \in SUBSET RoleNames},
      minimal_deployment : SUBSET {"read", "write"},
      recommended_deployment : {<<>>, [r \in {"read"} |-> 2], [r \in {"read", "write"} |-> 2]} ]

InitConfig ==
    /\ roles_config \in RolesConfigs
    /\ overrides = NoOverrides
    /\ InitEnv

NextConfig ==
    \/ \E u \in Units, k \in {"install", "config_changed"} : Dispatch(u, k)
    \/ Return

SpecConfig == InitConfig /\ [][NextConfig]_vars

(* SpecS3: the object-storage reader over every s3 relation data of S3Inputs. *)

InitS3 ==
    /\ roles_config = TestRolesConfig
    /\ overrides = NoOverrides
    /\ workers = [w \in WorkerIds |-> NoRelation]
    /\ s3_data \in S3Inputs
    /\ cert = CertDisabled
    /\ logging = [l \in LogUnits |-> NoLogUnit]
    /\ leader = NoUnit
    /\ outbound = EmptyBag
    /\ last = Idle

NextS3 ==
    \/ \E u \in Units : ReadS3Config(u)
    \/ \E u \in Units : Dispatch(u, "update_status")
    \/ Return

SpecS3 == InitS3 /\ [][NextS3]_vars

(* SpecTls: update_cluster over every state of the certificate handler. *)

InitTls ==
    /\ roles_config = TestRolesConfig
    /\ overrides = NoOverrides
    /\ InitEnv

NextTls ==
    \/ \E u \in Units, k \in TlsKinds : Dispatch(u, k)
    \/ \E u \in Units : UpdateCluster(u)
    \/ Return
    \/ \E w \in WorkerIds, d \in {Announce({"all"}), Announce({"read"})} : JoinWorker(w, d)
    \/ \E w \in WorkerIds : RemoveWorker(w)
    \/ \E d \in {NoS3Data, TestS3Data} : SetS3(d)
    \/ \E d \in CertValues : SetCert(d)
    \/ \E u \in Units \cup {NoUnit} : SetLeader(u)

SpecTls == InitTls /\ [][NextTls]_vars

(* SpecOverrides: the constructor's optional arguments: a coherence checker, a
   recommended checker and a tracing-receivers getter, each supplied or not. *)

OverrideValues ==
    [ is_coherent : BOOLEAN, is_recommended : BOOLEAN,
      tracing_receivers : {NoGetter, OtlpHttpGetter, EmptyReceiversGetter} ]

InitOverrides ==
    /\ roles_config = TestRolesConfig
    /\ overrides \in OverrideValues
    /\ InitEnv

NextOverrides ==
    \/ \E u \in Units, k \in {"update_status", "cluster_changed"} : Dispatch(u, k)
    \/ \E u \in Units : UpdateCluster(u)
    \/ Return
    \/ \E w \in WorkerIds, d \in {Announce({"read"}), Announce({"write"}), Announce({"all"})} :
            JoinWorker(w, d)
    \/ \E w \in WorkerIds : RemoveWorker(w)
    \/ \E d \in {NoS3Data, TestS3Data} : SetS3(d)
    \/ \E u \in Units \cup {NoUnit} : SetLeader(u)

SpecOverrides == InitOverrides /\ [][NextOverrides]_vars

(* ================================ claims =============================== *)

HookOps == {"dispatch", "update_cluster"}

\* r is provided by worker w of ws: w announces it, directly or through a meta-role.
Provides(ws, w, r) == ws[w].rel /\ ws[w].valid /\ r \in expand_roles(ws[w].roles)

\* Every role of the minimal deployment is provided by some worker.
Covered(ws) == \A r \in roles_config.minimal_deployment : \E w \in WorkerIds : Provides(ws, w, r)

(* C1: an update_cluster on a unit that is not the leader writes nothing to the
   outbound bundle, coherent or not; every write of the outbound bundle is made by a
   unit that is leader at the moment of the write. *)
C1_OnlyLeaderWrites ==
    [][ /\ (last'.op \in HookOps /\ last'.unit # leader)
            => (~last'.published /\ outbound' = outbound)
        /\ (last'.op \in HookOps /\ last'.published)
            => (last'.unit = leader /\ leader' = leader)
        /\ (outbound' # outbound /\ outbound' # EmptyBag)
            => (last'.op \in HookOps /\ last'.unit = leader /\ last'.unit \in Units) ]_vars

\* A unit that is not the leader ran update_cluster in a coherent cluster whose
\* leader, another unit, had published.
C1_Witness ==
    /\ last.op = "update_cluster"
    /\ last.invoked /\ last.refreshed
    /\ leader \in Units /\ last.unit \in Units \ {leader}
    /\ is_coherent
    /\ "worker_config" \in outbound.keys

(* C2: an update_cluster while the cluster is incoherent publishes nothing: the
   outbound bundle is unchanged by it, on the leader and on the other units. *)
C2_IncoherentNeverPublishes ==
    [][ (last'.op \in HookOps /\ last'.invoked /\ ~is_coherent)
            => (~last'.published /\ outbound' = outbound) ]_vars

\* The leader ran update_cluster while a role of the minimal deployment was missing.
C2_Witness ==
    /\ last.op = "update_cluster"
    /\ last.invoked /\ last.refreshed
    /\ last.unit = leader
    /\ has_workers /\ ~is_coherent
    /\ "worker_config" \in outbound.keys

(* C3: with no coherence override, is_coherent is true iff the keys of the gathered
   role counts are a superset of the minimal deployment; from a coherent cluster,
   removing the only worker that provides some role of the minimal deployment makes
   is_coherent false. *)
C3_CoherentIffCovered ==
    /\ [](~overrides.is_coherent => (is_coherent <=> Covered(workers)))
    /\ [][ \A w \in WorkerIds :
             ( /\ ~overrides.is_coherent
               /\ is_coherent
               /\ workers[w].rel
               /\ workers' = [workers EXCEPT ![w] = NoRelation]
               /\ \E r \in roles_config.minimal_deployment :
                     \A v \in WorkerIds : Provides(workers, v, r) => v = w )
             => ~is_coherent' ]_vars

\* A cluster that was coherent (its bundle was published) has one announcing worker
\* left, and a role of the minimal deployment is missing.
C3_Witness ==
    /\ ~overrides.is_coherent
    /\ "worker_config" \in outbound.keys
    /\ Cardinality(LiveWorkers(workers)) = 1
    /\ missing_roles # {}
    /\ ~is_coherent

(* C4: update_cluster is idempotent: invoked again with nothing changed in between,
   it leaves the outbound bundle as the first invocation left it. *)
C4_UpdateClusterIdempotent ==
    (last.op \in HookOps /\ last.invoked)
        => /\ update_cluster(last.unit).databag = outbound
           /\ update_cluster(last.unit).published = last.published
           /\ update_cluster(last.unit).raised = last.raised

\* The leader published a bundle with the TLS fields and a logging endpoint.
C4_Witness ==
    /\ last.op = "update_cluster"
    /\ last.published
    /\ outbound = PublishArguments
    /\ "ca_cert" \in outbound.keys
    /\ DOMAIN outbound.loki_endpoints # {}

\* The position of status st among the collected statuses, 0 when it is not there.
Position(sts, st) ==
    IF \E i \in 1..Len(sts) : sts[i] = st
    THEN CHOOSE i \in 1..Len(sts) : sts[i] = st
    ELSE 0

Collected == last.op = "dispatch" /\ last.raised = NoException

(* C5: a status collection evaluates the first two checks without short-circuit:
   "Missing any worker relation" is reported iff has_workers is false, "Cluster
   inconsistent" iff is_coherent is false; when both apply both are reported, the
   missing workers first. *)
C5_FirstTwoChecksCollected ==
    Collected =>
        /\ (Position(last.statuses, MissingWorkers) # 0) <=> (Relations = {})
        /\ (Position(last.statuses, ClusterInconsistent) # 0) <=> ~is_coherent
        /\ (Relations = {} /\ ~is_coherent)
             => /\ Position(last.statuses, MissingWorkers) = 1
                /\ Position(last.statuses, ClusterInconsistent) = 2

\* A status collection with no worker relation: both entries, missing workers first.
C5_Witness ==
    /\ Collected
    /\ Relations = {}
    /\ Len(last.statuses) = 3
    /\ last.statuses[1] = MissingWorkers
    /\ last.statuses[2] = ClusterInconsistent

\* The statuses of the final branch.
FinalStatuses == {MissingS3, Degraded, Healthy}

\* The status the final branch is to report.
ExpectedFinal ==
    IF _s3_config.exc # NoException THEN MissingS3
    ELSE IF DOMAIN roles_config.recommended_deployment # {} /\ is_recommended = PyFalse
         THEN Degraded
         ELSE Healthy

(* C6: a status collection reports exactly one entry of the final branch: "Missing S3
   integration" when s3_ready is false; otherwise "Degraded" only when a recommended
   criterion is defined and is_recommended is false; otherwise Active() with no
   message, in particular when is_recommended is None. *)
C6_FinalBranchAsSpecified ==
    Collected =>
        /\ Cardinality({i \in 1..Len(last.statuses) : last.statuses[i] \in FinalStatuses}) = 1
        /\ last.statuses[Len(last.statuses)] = ExpectedFinal

(* C7: with a worker relation present, one worker's role data missing or unparseable
   and the other workers not covering the minimal deployment, any event is processed
   without error and leaves the unit Blocked("Cluster inconsistent"), also with the
   S3 integration missing; the malformed worker counts as absent and leaves the
   counts of the other workers as they are. *)
WithoutMalformed(ws) == [w \in WorkerIds |-> IF ws[w].rel /\ ~ws[w].valid THEN NoRelation ELSE ws[w]]

C7_MalformedWorkerInconsistent ==
    ( /\ last.op = "dispatch"
      /\ \E w \in WorkerIds : workers[w].rel /\ ~workers[w].valid
      /\ ~Covered(WithoutMalformed(workers)) )
        => /\ last.raised = NoException
           /\ last.unit_status = ClusterInconsistent
           /\ gather_roles(workers) = gather_roles(WithoutMalformed(workers))

\* An install event with a malformed worker beside one announcing read, and no s3.
C7_Witness ==
    /\ last.op = "dispatch" /\ last.kind = "install"
    /\ \E w \in WorkerIds : workers[w].rel /\ ~workers[w].valid
    /\ \E w \in WorkerIds : workers[w] = Announce({"read"})
    /\ s3_data = NoS3Data
    /\ last.statuses = <<ClusterInconsistent, MissingS3>>
    /\ last.unit_status = ClusterInconsistent

\* Some meta-role member, minimal-deployment member or recommended-deployment key of
\* rc is not one of its roles.
UndefinedRoleUsed(rc) ==
    \/ \E m \in DOMAIN rc.meta_roles : \E r \in rc.meta_roles[m] : r \notin rc.roles
    \/ \E r \in rc.minimal_deployment : r \notin rc.roles
    \/ \E r \in DOMAIN rc.recommended_deployment : r \notin rc.roles

(* C8: for a role config that uses an undefined role (as a meta-role member, a
   minimal-deployment member or a recommended-deployment key), construction fails at
   validation, before the cluster view or any other component is built from the
   config; validation has no other effect. *)
C8_InvalidConfigFailsConstruction ==
    (last.op = "dispatch" /\ UndefinedRoleUsed(roles_config))
        => /\ last.raised = AssertionError
           /\ last.built = <<"topology">>
           /\ ~last.registered /\ ~last.invoked /\ ~last.published
           /\ last.statuses = <<>>
           /\ outbound = EmptyBag

\* Construction failed on a config whose only fault is a minimal-deployment member
\* that is not a role.
C8_Witness ==
    /\ last.op = "dispatch"
    /\ last.raised = AssertionError
    /\ ~(roles_config.minimal_deployment \subseteq roles_config.roles)
    /\ \A m \in DOMAIN roles_config.meta_roles :
          m \in roles_config.roles /\ roles_config.meta_roles[m] \subseteq roles_config.roles
    /\ DOMAIN roles_config.recommended_deployment \subseteq roles_config.roles

\* The number of workers that provide role r.
Providers(r) == Cardinality({w \in WorkerIds : Provides(workers, w, r)})

(* C9: with no recommended override, is_recommended is None when the recommended
   deployment is empty; otherwise False if some role of it is provided by fewer
   workers than its minimum (a role no worker provides counts as 0), and True if
   every role meets its minimum. *)
C9_RecommendedVerdict ==
    ~overrides.is_recommended =>
        is_recommended =
            IF DOMAIN roles_config.recommended_deployment = {} THEN PyNone
            ELSE PyBool(\A r \in DOMAIN roles_config.recommended_deployment :
                            Providers(r) >= roles_config.recommended_deployment[r])

\* One role of the recommended deployment meets its minimum and another has no
\* worker at all.
C9_Witness ==
    /\ ~overrides.is_recommended
    /\ \E r \in DOMAIN roles_config.recommended_deployment :
          Providers(r) >= roles_config.recommended_deployment[r]
    /\ \E r \in DOMAIN roles_config.recommended_deployment : Providers(r) = 0
    /\ is_recommended = PyFalse

(* C10: s3_ready is true iff reading the object-storage configuration succeeds; with
   no s3 relation data s3_ready is false and _s3_config raises S3NotFoundError; the
   error is caught in s3_ready and propagates out of neither s3_ready, nor
   can_handle_events, nor the construction, nor the status reporter. *)
C10_S3NotFoundCaught ==
    /\ s3_ready.exc = NoException
    /\ s3_ready.value <=> (_s3_config.exc = NoException)
    /\ s3_data = NoS3Data => (~s3_ready.value /\ _s3_config.exc = S3NotFoundError)
    /\ can_handle_events.exc = NoException
    /\ Construct.raised # S3NotFoundError
    /\ last.op = "dispatch" => last.raised # S3NotFoundError

\* A coherent cluster with no s3 relation data: the construction read s3_ready, and
\* the status collection reported the missing integration.
C10_Witness ==
    /\ Collected
    /\ s3_data = NoS3Data
    /\ has_workers /\ is_coherent
    /\ _s3_config.exc = S3NotFoundError
    /\ ~last.registered
    /\ last.statuses[1] = MissingS3

\* The mandatory field k of the s3 relation data is there and is not empty.
NonEmptyField(k) ==
    /\ k \in DOMAIN s3_data
    /\ IF k = "endpoint" THEN s3_data[k] # <<>> ELSE s3_data[k] # ""

(* C11: reading the object-storage configuration succeeds (and s3_ready is true) only
   when endpoint, bucket, access key and secret key are all non-empty: if one of them
   is missing or is the empty string, the read raises S3NotFoundError and s3_ready is
   false. *)
C11_PresentOnlyWhenNonEmpty ==
    last.op = "read_s3_config" =>
        /\ (last.raised = NoException) <=> (\A k \in S3MandatoryKeys : NonEmptyField(k))
        /\ (\E k \in S3MandatoryKeys : ~NonEmptyField(k))
             => (last.raised = S3NotFoundError /\ ~s3_ready.value)

\* A successful read of an s3 relation data whose endpoint is one of the forms of a host.
ReadOfHost(h) ==
    /\ last.op = "read_s3_config"
    /\ last.raised = NoException
    /\ s3_data["endpoint"] \in EndpointForms(h)

(* C12: for every host h, the raw endpoints h, http://h and https://h all give the
   returned endpoint h; normalizing the returned endpoint again leaves it unchanged;
   insecure is false exactly for the raw endpoint starting with https://. *)
C12_SchemeStripping ==
    \A h \in Hosts :
        ReadOfHost(h) =>
            /\ last.s3_config.endpoint = h
            /\ StripScheme(last.s3_config.endpoint) = last.s3_config.endpoint
            /\ last.s3_config.insecure <=> (s3_data["endpoint"] # <<"https", "://">> \o h)

\* The endpoint https://example.com was read: stripped, and not insecure.
C12_Witness ==
    /\ last.op = "read_s3_config"
    /\ last.raised = NoException
    /\ s3_data["endpoint"] = HttpsEndpoint
    /\ last.s3_config.endpoint = Endpoint
    /\ ~last.s3_config.insecure

(* C13: for every valid s3 relation data and each endpoint form h, http://h and
   https://h, the insecure flag of the returned configuration is true iff the relation
   data provides no tls-ca-chain. *)
C13_InsecureIffNoCaChain ==
    \A h \in Hosts :
        ReadOfHost(h) =>
            (last.s3_config.insecure <=> ("tls-ca-chain" \notin DOMAIN s3_data))

TlsKeys == {"ca_cert", "server_cert", "privkey_secret_id"}

\* The certificate handler is enabled and holds all three of its materials.
TlsMaterialComplete ==
    /\ cert.enabled
    /\ cert.server_cert # NULL
    /\ cert.private_key # NULL
    /\ cert.ca_cert # NULL

(* C14: TLS is available iff the certificate handler is enabled and server
   certificate, private key and CA certificate are all non-null; a bundle published
   by update_cluster holds ca_cert, server_cert and the private-key secret id all
   together when TLS is available, and none of the three when it is not. *)
C14_TlsFieldsAllOrNone ==
    /\ tls_available <=> TlsMaterialComplete
    /\ (last.op \in HookOps /\ last.published) =>
            IF TlsMaterialComplete
            THEN /\ TlsKeys \subseteq outbound.keys
                 /\ outbound.ca_cert = cert.ca_cert
                 /\ outbound.server_cert = cert.server_cert
                 /\ outbound.privkey_secret_id = grant_privkey
            ELSE /\ TlsKeys \cap outbound.keys = {}
                 /\ outbound.ca_cert = NULL
                 /\ outbound.server_cert = NULL
                 /\ outbound.privkey_secret_id = NULL

\* The leader published while the handler was enabled and held both certificates but
\* no private key: the bundle has none of the three fields.
C14_Witness ==
    /\ last.op = "update_cluster"
    /\ last.published
    /\ cert.enabled /\ cert.server_cert # NULL /\ cert.ca_cert # NULL
    /\ cert.private_key = NULL
    /\ TlsKeys \cap outbound.keys = {}
    /\ "worker_config" \in outbound.keys

\* Logging units whose databag has an endpoint that parses and holds a url.
WellFormedLogUnits ==
    { l \in LogUnits : /\ logging[l].unit /\ logging[l].has_endpoint /\ logging[l].parses
                        /\ "url" \in DOMAIN logging[l].obj }

(* C15: assembling loki_endpoints is best effort: a logging unit without an endpoint
   field, or whose endpoint is not parseable JSON or has no url, is skipped;
   update_cluster on the leader of a coherent cluster still completes and publishes a
   bundle whose loki_endpoints holds exactly the url of every well-formed unit. *)
C15_LokiEndpointsBestEffort ==
    (last.op \in HookOps /\ last.invoked /\ Covered(workers) /\ last.unit = leader) =>
        /\ last.raised = NoException
        /\ last.published
        /\ outbound.loki_endpoints = [l \in WellFormedLogUnits |-> logging[l].obj["url"]]

\* The kinds of notification whose handler calls update_cluster.
ReconcilingKinds == UpdateKinds \cup TlsKinds

\* What the constructor requires before it observes them.
ClusterReady ==
    /\ Relations # {}
    /\ Covered(workers)
    /\ S3MandatoryKeys \subseteq DOMAIN s3_data

(* C16 as stated: every notification of a reconciling kind leads to one invocation of
   update_cluster, in every cluster state, also with no workers, an incoherent
   cluster or no object storage. *)
C16_EveryNotificationReconciles ==
    (last.op = "dispatch" /\ last.kind \in ReconcilingKinds) =>
        (last.invoked /\ last.steps # <<>>)

(* C16 amended: a notification of a reconciling kind leads to one invocation of
   update_cluster iff, when the coordinator is constructed for it, the cluster has
   workers, is coherent and has object storage; otherwise it invokes no handler. *)
C16_NotificationReconcilesWhenReady ==
    (last.op = "dispatch" /\ last.kind \in ReconcilingKinds) =>
        /\ last.invoked <=> ClusterReady
        /\ last.invoked => (last.refreshed /\ last.steps # <<>>)
        /\ ~last.invoked => (~last.refreshed /\ ~last.published /\ last.steps = <<>>)

\* A change of the s3 credentials reached update_cluster on the leader, which published.
C16_Witness ==
    /\ last.op = "dispatch"
    /\ last.kind = "s3_credentials_changed"
    /\ last.invoked
    /\ last.published
    /\ ClusterReady

\* update_cluster began with the two configure_pebble_layer calls.
RefreshedFirst ==
    /\ last.refreshed
    /\ Len(last.steps) >= 2
    /\ last.steps[1] = "nginx.configure_pebble_layer"
    /\ last.steps[2] = "nginx_exporter.configure_pebble_layer"

(* C17 as stated: every invocation of update_cluster refreshes the proxy's and the
   exporter's process configuration before the gates and the publish, and so in an
   incoherent cluster the proxy configuration is refreshed when a notification
   arrives. *)
C17_RefreshOnEveryNotification ==
    /\ (last.op \in HookOps /\ last.invoked) => RefreshedFirst
    /\ (last.op = "dispatch" /\ last.kind \in ReconcilingKinds /\ ~Covered(workers))
            => last.refreshed

(* C17 amended: every invocation of update_cluster refreshes the proxy's and the
   exporter's process configuration, whatever the coherence and the leadership, before
   the gates and the publish; in an incoherent cluster a notification invokes no
   handler and refreshes nothing: only a direct call of update_cluster does. *)
C17_RefreshOnEveryInvocation ==
    /\ (last.op \in HookOps /\ last.invoked) => RefreshedFirst
    /\ (last.op = "dispatch" /\ ~Covered(workers)) => (~last.invoked /\ ~last.refreshed)
    /\ (last.op = "update_cluster" /\ ~Covered(workers))
            => (last.refreshed /\ ~last.published /\ last.steps = StepsThrough("is_coherent"))

\* A direct call of update_cluster on a unit that is not the leader, in an incoherent
\* cluster: both layers refreshed, nothing else done.
C17_Witness ==
    /\ last.op = "update_cluster"
    /\ Relations # {} /\ ~Covered(workers)
    /\ last.unit # leader
    /\ last.refreshed
    /\ last.steps = StepsThrough("is_coherent")

\* Workers present, the cluster coherent, the acting unit leader, no object storage.
ReadyButForS3 ==
    /\ Relations # {}
    /\ Covered(workers)
    /\ last.unit = leader
    /\ s3_data = NoS3Data

\* The bundle in the databag has the worker config, the logging endpoints and, when
\* TLS is available, the TLS fields.
BundlePublished ==
    /\ last.published
    /\ {"worker_config", "loki_endpoints"} \subseteq outbound.keys
    /\ outbound.worker_config = workers_config_getter
    /\ TlsMaterialComplete => TlsKeys \subseteq outbound.keys

(* C18 as stated: with workers present, the cluster coherent, the unit leader and no
   object storage, a membership, certificate or logging notification still results in
   a publish of worker_config, loki_endpoints and (when available) the TLS fields. *)
C18_MissingS3StillPublishes ==
    ( /\ last.op = "dispatch"
      /\ last.kind \in {"cluster_changed", "cert_changed", "loki_push_api_endpoint_joined"}
      /\ ReadyButForS3 )
        => BundlePublished

(* C18 amended: a missing object storage blocks the status verdict and the handling of
   notifications, not update_cluster itself: with workers present, the cluster
   coherent, the unit leader and no object storage, a membership, certificate or
   logging notification invokes no handler and publishes nothing, and the unit is
   Blocked("Missing S3 integration"); a direct call of update_cluster publishes
   worker_config, loki_endpoints and (when available) the TLS fields, or raises the
   error of reading the logging endpoints and publishes nothing. *)
C18_MissingS3BlocksOnlyNotifications ==
    /\ ( /\ last.op = "dispatch"
         /\ last.kind \in {"cluster_changed", "cert_changed", "loki_push_api_endpoint_joined"}
         /\ ReadyButForS3 )
           => /\ ~last.invoked /\ ~last.published
              /\ last.unit_status = MissingS3
    /\ (last.op = "update_cluster" /\ ReadyButForS3)
           => /\ last.raised = loki_endpoints_by_unit.exc
              /\ IF last.raised = NoException THEN BundlePublished ELSE ~last.published

\* With no object storage, a direct call of update_cluster on the leader published
\* a bundle with the TLS fields and a logging endpoint.
C18_Witness ==
    /\ last.op = "update_cluster"
    /\ ReadyButForS3
    /\ BundlePublished
    /\ TlsKeys \subseteq outbound.keys
    /\ DOMAIN outbound.loki_endpoints # {}

(* C19: the status collection changes no state: membership data, credential data, the
   outbound bundle, the proxy configuration and the TLS material are after it what the
   event's handler (if any ran) left; it only adds statuses, and it runs on every
   dispatch that reaches it, in every cluster state. *)
C19_StatusCollectionIsPure ==
    [][ last'.op = "dispatch" =>
          /\ env' = env
          /\ outbound' = IF last'.invoked THEN update_cluster(last'.unit).databag ELSE outbound
          /\ ~last'.invoked =>
                (last'.nginx_tls = "untouched" /\ ~last'.refreshed /\ last'.steps = <<>>)
          /\ last'.raised = NoException =>
                (last'.statuses # <<>> /\ last'.statuses = _on_collect_unit_status) ]_vars

\* An update-status event on the leader of a coherent cluster that has lost its object
\* storage: the bundle published before is still there, the status is collected.
C19_Witness ==
    /\ last.op = "dispatch"
    /\ last.kind = "update_status"
    /\ ~last.invoked
    /\ Covered(workers) /\ s3_data = NoS3Data
    /\ "worker_config" \in outbound.keys
    /\ last.statuses = <<MissingS3>>

\* How many times update_cluster called publish_data.
PublishCalls == Cardinality({i \in 1..Len(last.steps) : last.steps[i] = "publish_data"})

(* C20: an invocation of update_cluster publishes at most once, and exactly once when
   the cluster is coherent and the unit is leader; the published bundle always has
   worker_config (what the caller's generator returns) and loki_endpoints. *)
C20_PublishesExactlyOnce ==
    (last.op \in HookOps /\ last.invoked) =>
        /\ PublishCalls <= 1
        /\ (Covered(workers) /\ last.unit = leader) => (PublishCalls = 1 /\ last.published)
        /\ last.published =>
              /\ {"worker_config", "loki_endpoints"} \subseteq outbound.keys
              /\ outbound.worker_config = workers_config_getter

(* C21: a published bundle holds tracing_receivers iff a tracing-receivers getter was
   given to the constructor, and its value is then the map the getter returns, also
   when that map is empty. *)
C21_TracingReceiversIffGetter ==
    (last.op \in HookOps /\ last.published) =>
        /\ ("tracing_receivers" \in outbound.keys) <=> (overrides.tracing_receivers # NoGetter)
        /\ overrides.tracing_receivers = OtlpHttpGetter
              => outbound.tracing_receivers = [p \in {"otlp_http"} |-> "1.2.3.4:4318"]
        /\ overrides.tracing_receivers = EmptyReceiversGetter
              => outbound.tracing_receivers = <<>>

\* A bundle published with a getter that returns no receiver: the key is there, empty.
C21_Witness ==
    /\ last.op \in HookOps
    /\ last.published
    /\ overrides.tracing_receivers = EmptyReceiversGetter
    /\ "tracing_receivers" \in outbound.keys
    /\ outbound.tracing_receivers = <<>>

(* C22: missing_roles is the minimal deployment minus the roles some worker provides;
   with the default coherence rule is_coherent is true iff missing_roles is empty. *)
C22_MissingRoles ==
    /\ missing_roles = {r \in roles_config.minimal_deployment :
                            ~\E w \in WorkerIds : Provides(workers, w, r)}
    /\ ~overrides.is_coherent => (is_coherent <=> (missing_roles = {}))

\* Workers provide read, through a meta-role or directly, and none provides write.
C22_Witness ==
    /\ Relations # {}
    /\ \E w \in WorkerIds : Provides(workers, w, "read")
    /\ missing_roles = {"write"}
    /\ ~is_coherent
    /\ last.op = "dispatch"
    /\ last.statuses[1] = ClusterInconsistent

\* What the coherence checker given in this model answers: some worker announces.
CustomCoherent == \E w \in WorkerIds, r \in roles_config.roles : Provides(workers, w, r)

\* What the recommended checker given in this model answers.
CustomRecommended ==
    Cardinality({w \in WorkerIds : \E r \in roles_config.roles : Provides(workers, w, r)}) >= 2

(* C23: a coherence checker given to the constructor replaces the default rule:
   is_coherent is its result in every cluster state, and that result gates
   update_cluster, can_handle_events, the observation of the handlers at
   construction and the "Cluster inconsistent" status; a recommended checker given
   to the constructor likewise replaces the default is_recommended. *)
C23_OverridesReplaceDefaults ==
    /\ overrides.is_coherent =>
          /\ is_coherent <=> CustomCoherent
          /\ can_handle_events.value
                <=> (Relations # {} /\ CustomCoherent /\ S3MandatoryKeys \subseteq DOMAIN s3_data)
          /\ last.op = "update_cluster" => ((Len(last.steps) > 3) <=> CustomCoherent)
          /\ last.op = "dispatch" =>
                /\ last.registered
                      <=> (Relations # {} /\ CustomCoherent /\ S3MandatoryKeys \subseteq DOMAIN s3_data)
                /\ (Position(last.statuses, ClusterInconsistent) # 0) <=> ~CustomCoherent
    /\ overrides.is_recommended =>
          /\ is_recommended = PyBool(CustomRecommended)
          /\ (last.op = "dispatch" /\ S3MandatoryKeys \subseteq DOMAIN s3_data) =>
                last.statuses[Len(last.statuses)] = IF CustomRecommended THEN Healthy ELSE Degraded

\* With a coherence checker given, the leader published in a cluster the default rule
\* calls incoherent.
C23_Witness ==
    /\ overrides.is_coherent
    /\ last.op = "update_cluster"
    /\ last.published
    /\ ~Covered(workers)
    /\ CustomCoherent

\* The keys of the bundle the current state calls for.
ExpectedKeys ==
    {"worker_config", "loki_endpoints"}
    \cup (IF TlsMaterialComplete THEN TlsKeys ELSE {})
    \cup (IF overrides.tracing_receivers # NoGetter THEN {"tracing_receivers"} ELSE {})

(* C24: every publish overwrites the outbound bundle as a whole: after a publish made
   while TLS is not available the bundle holds no ca_cert, server_cert or private-key
   reference, also when the bundle it replaced held them; no field of the earlier
   bundle survives a publish that omits it. *)
C24_PublishOverwrites ==
    (last.op \in HookOps /\ last.published) =>
        /\ outbound.keys = ExpectedKeys
        /\ (last.prior_keys \ ExpectedKeys) \cap outbound.keys = {}
        /\ ~TlsMaterialComplete =>
              /\ TlsKeys \cap outbound.keys = {}
              /\ outbound.ca_cert = NULL
              /\ outbound.server_cert = NULL
              /\ outbound.privkey_secret_id = NULL

\* A publish without TLS replaced a bundle that held the three TLS fields.
C24_Witness ==
    /\ last.op \in HookOps
    /\ last.published
    /\ TlsKeys \subseteq last.prior_keys
    /\ TlsKeys \cap outbound.keys = {}
    /\ "worker_config" \in outbound.keys

\* The bundle the current state calls for, from the relation data, the certificate
\* handler and the constructor's arguments alone.
ExpectedBundle ==
    [ keys |-> ExpectedKeys,
      worker_config |-> "workers configuration for foo-app",
      loki_endpoints |-> [l \in WellFormedLogUnits |-> logging[l].obj["url"]],
      ca_cert |-> IF TlsMaterialComplete THEN cert.ca_cert ELSE NULL,
      server_cert |-> IF TlsMaterialComplete THEN cert.server_cert ELSE NULL,
      privkey_secret_id |-> IF TlsMaterialComplete THEN "secret:cert-handler-private-vault" ELSE NULL,
      tracing_receivers |-> IF overrides.tracing_receivers = OtlpHttpGetter
                            THEN [p \in {"otlp_http"} |-> "1.2.3.4:4318"] ELSE <<>> ]

(* C25: the bundle update_cluster publishes is a function of the current state only
   (worker announcements, TLS material, logging data, the generators' results), not
   of the notifications that led to it: whatever was published before, and however
   many notifications came, the bundle published is the one the state calls for. *)
C25_BundleFromStateOnly ==
    (last.op \in HookOps /\ last.published) => outbound = ExpectedBundle

\* A notification republished over an earlier bundle with other fields.
C25_Witness ==
    /\ last.op = "dispatch"
    /\ last.published
    /\ last.prior_keys # {}
    /\ last.prior_keys # outbound.keys
    /\ outbound = ExpectedBundle

\* The fields of a bundle that hold a string.
StringFields == {"worker_config", "ca_cert", "server_cert", "privkey_secret_id"}

(* C26: no bundle holds the raw private key: when the TLS fields are published the
   private key is there only as the secret id that granting the vault secret returns,
   and the grant is made in that update_cluster invocation, only when TLS is
   available and the unit is the leader of a coherent cluster. *)
C26_PrivateKeyOnlyByReference ==
    /\ \A f \in StringFields : outbound[f] # "private key"
    /\ outbound.privkey_secret_id \in {NULL, "secret:cert-handler-private-vault"}
    /\ (last.op \in HookOps /\ last.published) =>
          /\ ("privkey_secret_id" \in outbound.keys) <=> last.granted
          /\ last.granted <=> TlsMaterialComplete
    /\ (last.op \in HookOps /\ last.granted) =>
          /\ last.published
          /\ TlsMaterialComplete
          /\ Covered(workers)
          /\ last.unit = leader

\* The leader published the TLS fields: the secret id is there, granted in this call.
C26_Witness ==
    /\ last.op \in HookOps
    /\ last.published
    /\ last.granted
    /\ cert.private_key = "private key"
    /\ outbound.privkey_secret_id = "secret:cert-handler-private-vault"

\* The collected statuses that are Blocked, and those that are Active.
BlockedEntries == {i \in 1..Len(last.statuses) : last.statuses[i].name = "blocked"}
ActiveEntries == {i \in 1..Len(last.statuses) : last.statuses[i].name = "active"}

(* C27: when can_handle_events is false (no workers, or incoherent, or object storage
   not ready) a status collection reports at least one Blocked entry, one for each
   reason; when it is true the collection reports no Blocked entry and exactly one
   Active entry; every status collection reports at least one entry. *)
C27_BlockedIffCannotHandle ==
    Collected =>
        /\ Len(last.statuses) >= 1
        /\ can_handle_events.value <=> ClusterReady
        /\ ~ClusterReady =>
              /\ BlockedEntries # {}
              /\ Relations = {} => Position(last.statuses, MissingWorkers) # 0
              /\ ~Covered(workers) => Position(last.statuses, ClusterInconsistent) # 0
              /\ ~(S3MandatoryKeys \subseteq DOMAIN s3_data) => Position(last.statuses, MissingS3) # 0
        /\ ClusterReady => (BlockedEntries = {} /\ Cardinality(ActiveEntries) = 1)

\* A coherent cluster whose s3 relation lacks a mandatory field: one Blocked entry.
C27_Witness ==
    /\ Collected
    /\ Relations # {} /\ Covered(workers)
    /\ s3_data = PartialS3Data
    /\ ~can_handle_events.value
    /\ last.statuses = <<MissingS3>>

(* C28: the handlers of the notifications other than the status collection are
   observed at construction iff has_workers, is_coherent and s3_ready all hold then
   (can_handle_events); so a publish made for a notification is made with workers
   present, the cluster coherent and object storage ready, and a notification that
   comes when one of the three fails changes neither the outbound bundle nor the
   proxy configuration. *)
C28_HandlersObservedIffReady ==
    [][ last'.op = "dispatch" =>
          /\ last'.registered <=> ClusterReady
          /\ last'.registered <=> can_handle_events.value
          /\ last'.published => ClusterReady
          /\ ~ClusterReady =>
                /\ outbound' = outbound
                /\ ~last'.invoked /\ ~last'.refreshed
                /\ last'.nginx_tls = "untouched" /\ last'.handler = <<>> ]_vars

\* The credentials-gone notification on the leader of a coherent cluster, after the
\* s3 relation data went away: no handler ran, the bundle published before stays.
C28_Witness ==
    /\ last.op = "dispatch"
    /\ last.kind = "s3_credentials_gone"
    /\ s3_data = NoS3Data
    /\ Relations # {} /\ Covered(workers)
    /\ last.unit = leader
    /\ ~last.registered /\ ~last.invoked
    /\ "worker_config" \in outbound.keys

(* C29 as stated: after a certificate-changed or config-changed notification has been
   processed, the proxy holds TLS certificates iff TLS is available in the current
   state: configured when available, deleted otherwise, in every cluster state; the
   handler does this before it calls update_cluster. *)
C29_ProxyTlsOnEveryNotification ==
    (last.op = "dispatch" /\ last.kind \in {"cert_changed", "config_changed"}) =>
        /\ last.nginx_tls = IF TlsMaterialComplete THEN "configured" ELSE "deleted"
        /\ last.handler =
              IF TlsMaterialComplete
              THEN <<"nginx.configure_tls", "update_cluster">>
              ELSE <<"nginx.delete_certificates", "update_cluster">>

(* C29 amended: a certificate-changed or config-changed notification runs its handler
   iff, when the coordinator is constructed for it, the cluster has workers, is
   coherent and has object storage; the handler then configures the proxy's
   certificates when TLS is available and deletes them otherwise, and does so before
   it calls update_cluster; when the cluster is not ready the notification runs no
   handler and leaves the proxy's certificates as they were, whatever the TLS
   availability. *)
C29_ProxyTlsFollowsAvailability ==
    (last.op = "dispatch" /\ last.kind \in {"cert_changed", "config_changed"}) =>
        /\ last.invoked <=> ClusterReady
        /\ last.invoked =>
              /\ last.nginx_tls = IF TlsMaterialComplete THEN "configured" ELSE "deleted"
              /\ last.handler =
                    IF TlsMaterialComplete
                    THEN <<"nginx.configure_tls", "update_cluster">>
                    ELSE <<"nginx.delete_certificates", "update_cluster">>
              /\ last.refreshed
        /\ ~last.invoked =>
              /\ last.nginx_tls = "untouched"
              /\ last.handler = <<>>
              /\ ~last.refreshed /\ ~last.published

\* A config-changed notification handled while the certificate handler is enabled
\* but holds no private key: the proxy's certificates are deleted, then update_cluster.
C29_Witness ==
    /\ last.op = "dispatch"
    /\ last.kind = "config_changed"
    /\ last.invoked
    /\ cert.enabled /\ cert.server_cert # NULL /\ cert.private_key = NULL
    /\ last.nginx_tls = "deleted"
    /\ last.handler[1] = "nginx.delete_certificates"
    /\ last.refreshed

\* Meta-role names, meta-role members, minimal-deployment members and
\* recommended-deployment keys of rc are all roles of rc.
AllRolesDefined(rc) ==
    /\ \A m \in DOMAIN rc.meta_roles : m \in rc.roles
    /\ \A m \in DOMAIN rc.meta_roles : \A r \in rc.meta_roles[m] : r \in rc.roles
    /\ \A r \in rc.minimal_deployment : r \in rc.roles
    /\ \A r \in DOMAIN rc.recommended_deployment : r \in rc.roles

(* C30: the validation also rejects a role config in which a meta-role name is not
   one of the roles, even when every meta-role member, minimal-deployment member and
   recommended-deployment key is; a config is accepted exactly when meta-role names,
   meta-role members, minimal-deployment members and recommended-deployment keys are
   all among the roles. *)
C30_MetaRoleNamesValidated ==
    last.op = "dispatch" =>
        /\ (last.raised = AssertionError) <=> ~AllRolesDefined(roles_config)
        /\ AllRolesDefined(roles_config) => last.built = ConstructionOrder
        /\ validate_roles_config(roles_config) <=> AllRolesDefined(roles_config)

\* Construction failed on a config whose only fault is a meta-role name that is not
\* a role.
C30_Witness ==
    /\ last.op = "dispatch"
    /\ last.raised = AssertionError
    /\ ~UndefinedRoleUsed(roles_config)
    /\ \E m \in DOMAIN roles_config.meta_roles : m \notin roles_config.roles

====
